---- MODULE Spec2Model ----
(***************************************************************************)
(* A model of the CPU array backend src/src/ndarray_backend_cpu.cc:        *)
(* the strided traversal kernels (Compact, EwiseSetitem, ScalarSetitem),   *)
(* the position accumulator they share, Matmul / MatmulTiled, ReduceMax /  *)
(* ReduceSum and GridSample.                                               *)
(*                                                                         *)
(* Buffers (AlignedArray) are functions from 0..size-1 to integers: the    *)
(* traversal, matmul and reduction kernels move scalar_t values or combine *)
(* them with + and *, so integers stand for floats whose arithmetic is     *)
(* exact.  GridSample computes coordinates in float, and there every       *)
(* operation is rounded to a 24-bit significand.  The vectors shape,       *)
(* strides and index are sequences, dimension d of the code being element  *)
(* d+1.                                                                    *)
(***************************************************************************)
EXTENDS Integers, Sequences, FiniteSets, TLC

\* ----------------------------------------------------------------- bounds
MaxRank == 2
MaxExtent == 3
MaxElems == 6
MaxStride == 3
BufSize == 6
MaxCnt == 3
MaxTiles == 2
MaxSeed == 1
MaxOut == 2
MaxReduce == 3
MaxDim == 2
GridBits == 1

\* ------------------------------------------------- 64-bit unsigned (size_t)
\* A size_t is four 16-bit limbs, least significant first; all arithmetic on
\* it is modulo 2^64.
LimbBase == 2^16

U64Zero == <<0, 0, 0, 0>>

\* The size_t value of a non-negative int below 2^31.
U64FromNat(n) == <<n % LimbBase, n \div LimbBase, 0, 0>>

\* Zero extension of a 32-bit pattern (what a uint32_t operand would give).
U64ZeroExtend32(v) ==
  IF v >= 0 THEN U64FromNat(v)
  ELSE LET m == (-v) - 1
       IN  <<(LimbBase - 1) - (m % LimbBase), (LimbBase - 1) - (m \div LimbBase), 0, 0>>

\* The conversion int32_t -> size_t in `pos += index[i] * strides[i]`: the
\* value modulo 2^64, i.e. sign extension of the two's complement pattern.
U64FromInt32(v) ==
  IF v >= 0 THEN U64FromNat(v)
  ELSE LET m == (-v) - 1
       IN  <<(LimbBase - 1) - (m % LimbBase), (LimbBase - 1) - (m \div LimbBase),
             LimbBase - 1, LimbBase - 1>>

\* x + y modulo 2^64.
U64Add(x, y) ==
  LET s1 == x[1] + y[1]
      s2 == x[2] + y[2] + (s1 \div LimbBase)
      s3 == x[3] + y[3] + (s2 \div LimbBase)
      s4 == x[4] + y[4] + (s3 \div LimbBase)
  IN  <<s1 % LimbBase, s2 % LimbBase, s3 % LimbBase, s4 % LimbBase>>

\* The element a size_t addresses, or -1 when it is 2^31 or more (outside
\* every buffer of the model).
U64Index(x) ==
  IF x[3] = 0 /\ x[4] = 0 /\ x[2] < LimbBase \div 2 THEN x[2] * LimbBase + x[1] ELSE -1

\* ------------------------------------------------------ strided traversal
\* The conversion with the product taken as an unsigned 32-bit value.
PosAddUnsigned(pos, ix, st) == U64Add(pos, U64ZeroExtend32(ix * st))

\* One round of the inner loop: pos += index[i] * strides[i].  The product
\* is an int32_t (the model's values keep it inside 32 bits) converted to
\* size_t for the addition.
PosAdd(pos, ix, st) == U64Add(pos, U64FromInt32(ix * st))

RECURSIVE PosFrom(_, _, _, _)
PosFrom(pos, index, strides_, i) ==
  IF i > Len(index) THEN pos
  ELSE PosFrom(PosAdd(pos, index[i], strides_[i]), index, strides_, i + 1)

\* The accumulator started at 0 instead of offset.
PosNoOffset(index, strides_, offset_) == PosFrom(U64Zero, index, strides_, 1)

\* size_t pos = offset; for (i ...) pos += index[i] * strides[i];
Pos(index, strides_, offset_) == PosFrom(U64FromNat(offset_), index, strides_, 1)

\* The counter carried from the first dimension to the last.
RECURSIVE IncrFirstFastest(_, _, _)
IncrFirstFastest(index, shape_, dim) ==
  IF dim > Len(shape_) THEN [index |-> index, ret |-> FALSE]
  ELSE IF index[dim] + 1 < shape_[dim]
       THEN [index |-> [index EXCEPT ![dim] = index[dim] + 1], ret |-> FALSE]
       ELSE IF dim = Len(shape_)
            THEN [index |-> [index EXCEPT ![dim] = 0], ret |-> TRUE]
            ELSE IncrFirstFastest([index EXCEPT ![dim] = 0], shape_, dim + 1)

IncrReturnFirstFastest(index, shape_, dim) ==
  IF dim < 1 THEN [index |-> index, ret |-> FALSE] ELSE IncrFirstFastest(index, shape_, 1)

\* for (int dim = n_dim - 1; dim >= 0; --dim) { index[dim]++; ... }
\* The result is the index vector after the loop and whether the loop
\* executed `return`.  With n_dim = 0 the loop body never runs.
RECURSIVE IncrReturn(_, _, _)
IncrReturn(index, shape_, dim) ==
  IF dim < 1 THEN [index |-> index, ret |-> FALSE]
  ELSE IF index[dim] + 1 < shape_[dim]
       THEN [index |-> [index EXCEPT ![dim] = index[dim] + 1], ret |-> FALSE]
       ELSE IF dim = 1
            THEN [index |-> [index EXCEPT ![dim] = 0], ret |-> TRUE]
            ELSE IncrReturn([index EXCEPT ![dim] = 0], shape_, dim - 1)

\* The increment loop without `index[dim] = 0`.
RECURSIVE IncrWrapNoReset(_, _, _)
IncrWrapNoReset(index, shape_, dim) ==
  IF dim < 1 THEN index
  ELSE IF index[dim] + 1 < shape_[dim]
       THEN [index EXCEPT ![dim] = index[dim] + 1]
       ELSE IncrWrapNoReset([index EXCEPT ![dim] = index[dim] + 1], shape_, dim - 1)

\* The increment loop of ScalarSetitem, which has no `return`.
RECURSIVE IncrWrap(_, _, _)
IncrWrap(index, shape_, dim) ==
  IF dim < 1 THEN index
  ELSE IF index[dim] + 1 < shape_[dim]
       THEN [index EXCEPT ![dim] = index[dim] + 1]
       ELSE IncrWrap([index EXCEPT ![dim] = 0], shape_, dim - 1)

\* std::vector<int32_t> index(n_dim, 0)
ZeroIndex(shape_) == [d \in 1..Len(shape_) |-> 0]

RECURSIVE ProductFrom(_, _)
ProductFrom(shape_, d) == IF d > Len(shape_) THEN 1 ELSE shape_[d] * ProductFrom(shape_, d + 1)

\* The element count of a compact array of this shape.
Product(shape_) == ProductFrom(shape_, 1)

\* ----------------------------------------------------------------- buffers
InBuf(buf, i) == i \in DOMAIN buf

\* What an out-of-bounds read may yield.
Garbage == {-7, -8}

\* AlignedArray(size): posix_memalign leaves the contents unspecified; the
\* model gives every buffer distinct, recognisable contents.
SrcBuf == [i \in 0..(BufSize - 1) |-> i]
DstBuf == [i \in 0..(BufSize - 1) |-> 100 + i]
ZeroBuf == [i \in 0..(BufSize - 1) |-> 0]
CompactBuf(shape_) == [i \in 0..(Product(shape_) - 1) |-> 50 + i]

\* ------------------------------------------------------------------ matmul
TILE == 8

\* Fill(out, val)
Fill(out_, v) == [x \in DOMAIN out_ |-> v]

\* An element of a buffer; every index the kernels form on the inputs of the
\* model is inside its buffer, and the value outside is never used.
At(buf, x) == IF InBuf(buf, x) THEN buf[x] ELSE -7

\* out[i * p + j] = 0; for (k ...) out[i * p + j] += a[i * n + k] * b[k * p + j];
RECURSIVE NaiveAcc(_, _, _, _, _, _, _, _)
NaiveAcc(acc, a_, b_, i, j, k, n_, p_) ==
  IF k >= n_ THEN acc
  ELSE NaiveAcc(acc + At(a_, i * n_ + k) * At(b_, k * p_ + j), a_, b_, i, j, k + 1, n_, p_)

\* Matmul(a, b, out, m, n, p): the three loops of lines 242-249.
Matmul(a_, b_, out_, m_, n_, p_) ==
  [x \in DOMAIN out_ |->
     IF x < m_ * p_ THEN NaiveAcc(0, a_, b_, x \div p_, x % p_, 0, n_, p_) ELSE out_[x]]

\* for (k ...) out[i * TILE + j] += a[i * TILE + k] * b[k * TILE + j];
RECURSIVE DotAcc(_, _, _, _, _, _)
DotAcc(acc, aTile, bTile, i, j, k) ==
  IF k >= TILE THEN acc
  ELSE DotAcc(acc + aTile[i * TILE + k] * bTile[k * TILE + j], aTile, bTile, i, j, k + 1)

\* The TILE x TILE block of a buffer that starts at base.
TileAt(buf, base) == [x \in 0..(TILE * TILE - 1) |-> At(buf, base + x)]

\* AlignedDot(a, b, out) on the tiles at aBase, bBase and outBase: the
\* product of the two tiles is added to the out tile.
AlignedDot(a_, aBase, b_, bBase, out_, outBase) ==
  LET aTile == TileAt(a_, aBase)
      bTile == TileAt(b_, bBase)
  IN  [x \in DOMAIN out_ |->
         IF x >= outBase /\ x < outBase + TILE * TILE
         THEN DotAcc(out_[x], aTile, bTile, (x - outBase) \div TILE, (x - outBase) % TILE, 0)
         ELSE out_[x]]

\* The tile of b addressed with the roles of j and k exchanged.
BTileSwapped(k, p_, j) == j * p_ + k * TILE

\* &a.ptr[i * n + k * TILE], &b.ptr[k * p + j * TILE], &out->ptr[i * p + j * TILE]
ATile(i, n_, k) == i * n_ + k * TILE
BTile(k, p_, j) == k * p_ + j * TILE
OutTile(i, p_, j) == i * p_ + j * TILE

\* The 4D layout x[rows/TILE][cols/TILE][TILE][TILE] of lines 290-302: the
\* row and the column of the matrix that element x of the buffer holds.
TiledRow(x, cols) ==
  ((x \div (TILE * TILE)) \div (cols \div TILE)) * TILE + ((x % (TILE * TILE)) \div TILE)
TiledCol(x, cols) ==
  ((x \div (TILE * TILE)) % (cols \div TILE)) * TILE + (x % TILE)

\* The matrices of the model: small integers that vary with row, column and
\* a seed.
MatA(i, k, seed) == ((3 * i + 5 * k + 7 * seed) % 5) - 2
MatB(k, j, seed) == ((2 * k + 3 * j + k * j + seed) % 4) - 1

\* --------------------------------------------------------------- reduction
\* for (j ...; j < reduce_size; ++j) max_val = std::max(max_val, a[base + j]);
\* v is the accumulator, r the indices of a read so far.
RECURSIVE MaxLoop(_, _, _, _, _)
MaxLoop(acc, a_, base, j, reduce_size) ==
  IF j >= reduce_size THEN acc
  ELSE MaxLoop([v |-> IF acc.v < At(a_, base + j) THEN At(a_, base + j) ELSE acc.v,
                r |-> acc.r \cup {base + j}],
               a_, base, j + 1, reduce_size)

\* The maximum started at 0 instead of the first element of the block.
MaxBlockFromZero(a_, i, reduce_size) ==
  MaxLoop([v |-> 0, r |-> {}], a_, i * reduce_size, 0, reduce_size)

\* Lines 335-338: max_val = a[i * reduce_size], then the loop from j = 1.
MaxBlock(a_, i, reduce_size) ==
  MaxLoop([v |-> At(a_, i * reduce_size), r |-> {i * reduce_size}],
          a_, i * reduce_size, 1, reduce_size)

\* for (j ...; j < reduce_size; ++j) sum_val += a[base + j];
RECURSIVE SumLoop(_, _, _, _, _)
SumLoop(acc, a_, base, j, reduce_size) ==
  IF j >= reduce_size THEN acc
  ELSE SumLoop([v |-> acc.v + At(a_, base + j), r |-> acc.r \cup {base + j}],
               a_, base, j + 1, reduce_size)

\* Lines 353-356: sum_val = 0, then the loop from j = 0.
SumBlock(a_, i, reduce_size) ==
  SumLoop([v |-> 0, r |-> {}], a_, i * reduce_size, 0, reduce_size)

\* ------------------------------------------------------------ grid sample
\* scalar_t is float: a value is a numerator over a power of two, and it is
\* a float exactly when the numerator has at most 24 significant bits.  A
\* grid value is a numerator over GridDen; x_trans, y_trans, dx, dy and the
\* weights are numerators over TransDen; an element of out is a numerator
\* over TransDen * TransDen.
GridDen == 2 ^ GridBits
TransDen == 2 * GridDen
MantissaBits == 24

\* The spacing of the floats around the magnitude m.
RECURSIVE Ulp(_)
Ulp(m) == IF m < 2 ^ MantissaBits THEN 1 ELSE 2 * Ulp(m \div 2)

\* Round to nearest, ties to even.
RoundEven(m) ==
  LET u == Ulp(m)
      q == m \div u
      r == m % u
  IN  IF 2 * r < u THEN q * u
      ELSE IF 2 * r > u THEN (q + 1) * u
      ELSE IF q % 2 = 0 THEN q * u ELSE (q + 1) * u

\* The conversion to scalar_t of every assignment and float operation.
Float32(n) == IF n >= 0 THEN RoundEven(n) ELSE -RoundEven(-n)

\* static_cast<int32_t> of num / TransDen: truncation toward zero.
Cast(num) == IF num >= 0 THEN num \div TransDen ELSE -((-num) \div TransDen)

\* The offset without the one-pixel pad.
HalfOffsetNoPad(w) == Float32(w - 1) * GridDen

\* scalar_t offset_x = (w + 1) / 2.0, as a numerator over TransDen.
HalfOffset(w) == Float32(w + 1) * GridDen

\* scalar_t x_trans = x * w / 2.0 + offset_x: the product is a float, the
\* division and the sum are double (exact here), the assignment rounds.
Trans(xn, w) == Float32(Float32(xn * Float32(w)) + HalfOffset(w))

\* scalar_t dx = x_trans - x_ind
Delta(xt, xi) == Float32(xt - Float32(xi) * TransDen)

\* The grid cell taken per (b, c) plane instead of per batch.
GridPtrPerChannel(i, chw, hw) == ((i \div hw) * hw + (i % hw)) * 2

\* grid_ptr = ((i / chw) * hw + i % hw) << 1
GridPtr(i, chw, hw) == ((i \div chw) * hw + (i % hw)) * 2

\* a_ptr = (i / hw) * h2w2 + (y_ind + yy[k]) * (w+2) + (x_ind + xx[k])
APtr(i, hw, h2w2, w, y, x) == (i \div hw) * h2w2 + y * (w + 2) + x

\* dx * ((xx[k] << 1) - 1) + 1 - xx[k], evaluated left to right in float
Weight(d, k) == Float32(Float32(Float32(d * (2 * k - 1)) + TransDen) - k * TransDen)

\* The body of the loop over i (lines 382-394): out[i] after the four
\* accumulations, the indices of a read, and x_ind, y_ind.
GridSampleAt(a_, grid_, prior, i, shape_) ==
  LET h == shape_[3]
      w == shape_[4]
      hw == h * w
      h2w2 == (h + 2) * (w + 2)
      chw == shape_[2] * h * w
      gp == GridPtr(i, chw, hw)
      xt == Trans(At(grid_, gp), w)
      yt == Trans(At(grid_, gp + 1), h)
      xi == Cast(xt)
      yi == Cast(yt)
      dx == Delta(xt, xi)
      dy == Delta(yt, yi)
      term(xk, yk) ==
        Float32(Float32(At(a_, APtr(i, hw, h2w2, w, yi + yk, xi + xk)) * Weight(dx, xk))
                * Weight(dy, yk))
      acc(o, xk, yk) == Float32(o + term(xk, yk))
  IN  [out |-> acc(acc(acc(acc(prior, 0, 0), 1, 0), 0, 1), 1, 1),
       reads |-> {APtr(i, hw, h2w2, w, yi + yk, xi + xk) : xk \in {0, 1}, yk \in {0, 1}},
       xind |-> xi,
       yind |-> yi]

VARIABLES
  pc,        \* the kernel running, or "idle"
  shape, strides, offset,   \* the view every call is made with
  a,         \* the strided source buffer of Compact
  c,         \* the compact buffer: out of Compact, a of EwiseSetitem
  z,         \* the strided destination passed to EwiseSetitem / ScalarSetitem
  val, size, \* the arguments of ScalarSetitem
  index, cnt,               \* locals of the running kernel
  called,    \* ghost: the kernels called so far, in order
  transfers, \* ghost: element transfers of the current or last call
  touched,   \* ghost: compact indices read or written by the call
  written,   \* ghost: positions of the strided destination written
  oob,       \* ghost: the call read or wrote outside a buffer
  zAtCall,   \* ghost: z as it was when the call was made
  ppos, pi   \* the accumulator `pos` and the counter i of its loop

tvars == <<pc, shape, strides, offset, a, c, z, val, size, index, cnt,
           called, transfers, touched, written, oob, zAtCall>>
pvars == <<ppos, pi>>

VARIABLES
  mdim, ndim, pdim,   \* the arguments m, n, p
  am, bm, outm,       \* a, b, out of Matmul (row-major)
  at, bt, outt,       \* a, b, out of MatmulTiled (4D tiled layout)
  ti, tj, tk,         \* the loop counters i, j, k of MatmulTiled
  mpc,                \* "MatmulTiled" while its loops run, else "idle"
  mcalled             \* ghost: the entry points called so far

mvars == <<mdim, ndim, pdim, am, bm, outm, at, bt, outt, ti, tj, tk, mpc, mcalled>>

VARIABLES
  ra,              \* the compact source a of both reductions
  rsize,           \* reduce_size
  outMax, outSum,  \* out of ReduceMax and of ReduceSum
  ri,              \* the loop counter i
  rpc,             \* the reduction running, or "idle"
  rcalled,         \* ghost: the reductions called so far
  rreads           \* ghost: per reduction and output, the indices of a read

rvars == <<ra, rsize, outMax, outSum, ri, rpc, rcalled, rreads>>

VARIABLES
  gshape,   \* the argument shape: B, C, H, W
  ga,       \* the padded source a, B * C * (H+2) * (W+2) elements
  ggrid,    \* the grid, B * H * W * 2 numerators
  gout,     \* out, B * C * H * W elements
  gprior,   \* what out held, in every element, before the call
  gi,       \* the loop counter i
  gpc,      \* "GridSample" while the loop runs, else "idle"
  greads,   \* ghost: per output element, the indices of a read for it
  ginds     \* ghost: per output element, <<x_ind, y_ind>>

gvars == <<gshape, ga, ggrid, gout, gprior, gi, gpc, greads, ginds>>

VARIABLES
  cshape,   \* the argument shape of the element followed: 1, 1, H, W
  cgrid,    \* its grid cell: the numerators of x and y
  ctrans,   \* <<x_trans, y_trans>>
  cind,     \* <<x_ind, y_ind>>
  creads,   \* the four values of a_ptr
  cpc       \* the line of the loop body reached

cvars == <<cshape, cgrid, ctrans, cind, creads, cpc>>

vars == <<tvars, pvars, mvars, rvars, gvars, cvars>>

CoordIdle ==
  /\ cshape = <<>> /\ cgrid = <<>> /\ ctrans = <<>> /\ cind = <<>>
  /\ creads = {} /\ cpc = "off"

GridIdle ==
  /\ gshape = <<>> /\ ga = <<>> /\ ggrid = <<>> /\ gout = <<>> /\ gprior = 0
  /\ gi = 0 /\ gpc = "off" /\ greads = <<>> /\ ginds = <<>>

ReduceIdle ==
  /\ ra = <<>> /\ rsize = 0 /\ outMax = <<>> /\ outSum = <<>>
  /\ ri = 0 /\ rpc = "off" /\ rcalled = {} /\ rreads = <<>>

MatmulIdle ==
  /\ mdim = 0 /\ ndim = 0 /\ pdim = 0
  /\ am = <<>> /\ bm = <<>> /\ outm = <<>>
  /\ at = <<>> /\ bt = <<>> /\ outt = <<>>
  /\ ti = 0 /\ tj = 0 /\ tk = 0
  /\ mpc = "off" /\ mcalled = {}

\* The position loop is not observed on its own.
PosIdle == ppos = U64Zero /\ pi = 0

\* The views a caller may pass: every position of the shape inside the
\* buffer.  The kernels visit index 0 of a dimension of extent 0 as well, so
\* the positions are taken over Visited(shape), the shape with every empty
\* dimension widened to one index.
Shapes == {s \in UNION {[1..r -> 0..MaxExtent] : r \in 0..MaxRank} :
             Product(s) <= MaxElems}
StridesOf(r) == [1..r -> (-MaxStride)..MaxStride]
Indices(shape_) == {ix \in [1..Len(shape_) -> 0..MaxExtent] :
                      \A d \in 1..Len(shape_) : ix[d] < shape_[d]}
Visited(shape_) == [d \in 1..Len(shape_) |-> IF shape_[d] = 0 THEN 1 ELSE shape_[d]]

RECURSIVE MathPosFrom(_, _, _)
MathPosFrom(ix, strides_, d) ==
  IF d > Len(ix) THEN 0 ELSE ix[d] * strides_[d] + MathPosFrom(ix, strides_, d + 1)

\* offset + sum_d idx[d] * strides[d], over the integers.
MathPos(ix, strides_, offset_) == offset_ + MathPosFrom(ix, strides_, 1)

ValidView(shape_, strides_, offset_) ==
  \A ix \in Indices(Visited(shape_)) : MathPos(ix, strides_, offset_) \in 0..(BufSize - 1)

\* The stride of a dimension whose index never leaves 0 is only ever
\* multiplied by 0: one representative, 0, stands for all its values.
LiveStrides(shape_, strides_) ==
  \A d \in 1..Len(shape_) : shape_[d] <= 1 => strides_[d] = 0

InitTraversal ==
  /\ shape \in Shapes
  /\ strides \in StridesOf(Len(shape))
  /\ LiveStrides(shape, strides)
  /\ offset \in 0..(BufSize - 1)
  /\ ValidView(shape, strides, offset)
  /\ a = SrcBuf
  /\ c = CompactBuf(shape)
  /\ z = DstBuf
  /\ val = 0
  /\ size = 0
  /\ pc = "idle"
  /\ index = <<>>
  /\ cnt = 0
  /\ called = <<>>
  /\ transfers = 0
  /\ touched = {}
  /\ written = {}
  /\ oob = FALSE
  /\ zAtCall = z
  /\ PosIdle
  /\ MatmulIdle
  /\ ReduceIdle
  /\ GridIdle
  /\ CoordIdle

\* The call sequences of a run: Compact, then possibly EwiseSetitem of its
\* result; EwiseSetitem alone; ScalarSetitem alone.
HasCalled(name) == \E k \in 1..Len(called) : called[k] = name

\* A fresh call with destination dst: the buffer and the ghosts.
Enter(name, dst) ==
  /\ z' = dst
  /\ called' = Append(called, name)
  /\ transfers' = 0
  /\ touched' = {}
  /\ written' = {}
  /\ oob' = FALSE
  /\ zAtCall' = dst

\* Compact(a, &c, shape, strides, offset): lines 64-65 and the loop header.
CallCompact ==
  /\ pc = "idle"
  /\ called = <<>>
  /\ pc' = "Compact"
  /\ index' = ZeroIndex(shape)
  /\ cnt' = 0
  /\ Enter("Compact", z)
  /\ UNCHANGED <<shape, strides, offset, a, c, val, size>>

\* One iteration of `for (size_t cnt = 0;; ++cnt)` in Compact.
CompactStep ==
  /\ pc = "Compact"
  /\ Len(shape) = 0 => cnt < MaxCnt
  /\ LET pos == U64Index(Pos(index, strides, offset))
         nxt == IncrReturn(index, shape, Len(shape))
     IN  /\ \E g \in (IF InBuf(a, pos) THEN {a[pos]} ELSE Garbage) :
              c' = IF InBuf(c, cnt) THEN [c EXCEPT ![cnt] = g] ELSE c
         /\ oob' = (oob \/ ~InBuf(a, pos) \/ ~InBuf(c, cnt))
         /\ transfers' = transfers + 1
         /\ touched' = touched \cup {cnt}
         /\ index' = nxt.index
         /\ IF nxt.ret THEN pc' = "idle" /\ cnt' = cnt
                       ELSE pc' = pc /\ cnt' = cnt + 1
  /\ UNCHANGED <<shape, strides, offset, a, z, val, size, called, written, zAtCall>>

\* EwiseSetitem(c, &z, shape, strides, offset): lines 99-100 and the loop header.
CallEwiseSetitem ==
  /\ pc = "idle"
  /\ ~HasCalled("EwiseSetitem") /\ ~HasCalled("ScalarSetitem")
  /\ pc' = "EwiseSetitem"
  /\ index' = ZeroIndex(shape)
  /\ cnt' = 0
  /\ \E dst \in {ZeroBuf, DstBuf} : Enter("EwiseSetitem", dst)
  /\ UNCHANGED <<shape, strides, offset, a, c, val, size>>

\* One iteration of `for (size_t cnt = 0;; ++cnt)` in EwiseSetitem.
EwiseSetitemStep ==
  /\ pc = "EwiseSetitem"
  /\ Len(shape) = 0 => cnt < MaxCnt
  /\ LET pos == U64Index(Pos(index, strides, offset))
         nxt == IncrReturn(index, shape, Len(shape))
     IN  /\ \E g \in (IF InBuf(c, cnt) THEN {c[cnt]} ELSE Garbage) :
              z' = IF InBuf(z, pos) THEN [z EXCEPT ![pos] = g] ELSE z
         /\ oob' = (oob \/ ~InBuf(z, pos) \/ ~InBuf(c, cnt))
         /\ transfers' = transfers + 1
         /\ touched' = touched \cup {cnt}
         /\ written' = written \cup {pos}
         /\ index' = nxt.index
         /\ IF nxt.ret THEN pc' = "idle" /\ cnt' = cnt
                       ELSE pc' = pc /\ cnt' = cnt + 1
  /\ UNCHANGED <<shape, strides, offset, a, c, val, size, called, zAtCall>>

\* ScalarSetitem(size, val, &z, shape, strides, offset) with size the product
\* of shape (lines 128-130): line 137 and the first test of cnt < size.
CallScalarSetitem ==
  /\ pc = "idle"
  /\ called = <<>>
  /\ \E v \in {0, 7} : val' = v
  /\ size' = Product(shape)
  /\ pc' = IF Product(shape) > 0 THEN "ScalarSetitem" ELSE "idle"
  /\ index' = ZeroIndex(shape)
  /\ cnt' = 0
  /\ \E dst \in {ZeroBuf, DstBuf} : Enter("ScalarSetitem", dst)
  /\ UNCHANGED <<shape, strides, offset, a, c>>

\* One iteration of `for (size_t cnt = 0; cnt < size; ++cnt)` in ScalarSetitem.
ScalarSetitemStep ==
  /\ pc = "ScalarSetitem"
  /\ LET pos == U64Index(Pos(index, strides, offset))
     IN  /\ z' = IF InBuf(z, pos) THEN [z EXCEPT ![pos] = val] ELSE z
         /\ oob' = (oob \/ ~InBuf(z, pos))
         /\ transfers' = transfers + 1
         /\ touched' = touched \cup {cnt}
         /\ written' = written \cup {pos}
         /\ index' = IncrWrap(index, shape, Len(shape))
         /\ cnt' = cnt + 1
         /\ pc' = IF cnt + 1 < size THEN pc ELSE "idle"
  /\ UNCHANGED <<shape, strides, offset, a, c, val, size, called, zAtCall>>

NextTraversal ==
  \/ CallCompact /\ UNCHANGED <<pvars, mvars, rvars, gvars, cvars>>
  \/ CompactStep /\ UNCHANGED <<pvars, mvars, rvars, gvars, cvars>>
  \/ CallEwiseSetitem /\ UNCHANGED <<pvars, mvars, rvars, gvars, cvars>>
  \/ EwiseSetitemStep /\ UNCHANGED <<pvars, mvars, rvars, gvars, cvars>>
  \/ CallScalarSetitem /\ UNCHANGED <<pvars, mvars, rvars, gvars, cvars>>
  \/ ScalarSetitemStep /\ UNCHANGED <<pvars, mvars, rvars, gvars, cvars>>

SpecTraversal == InitTraversal /\ [][NextTraversal]_vars

\* ------------------------------------------------- the position loop
\* The loop of lines 69-72 (and 104-107, 141-144) on its own, one round of
\* `pos += index[i] * strides[i]` per step, over index vectors, strides and
\* offsets that include values beyond 16 bits.
PosIndexVals == {0, 1, MaxExtent}
PosStrideVals == ((-MaxStride)..MaxStride) \cup {-(LimbBase + 1), LimbBase}
PosOffsetVals == {0, 1, BufSize - 1, LimbBase - 1, 4 * LimbBase}
PosBufSize == 8 * LimbBase

\* The kernels are not running.
TraversalIdle ==
  /\ pc = "pos"
  /\ shape = <<>>
  /\ a = <<>> /\ c = <<>> /\ z = <<>> /\ zAtCall = <<>>
  /\ val = 0 /\ size = 0 /\ cnt = 0
  /\ called = <<>> /\ transfers = 0 /\ touched = {} /\ written = {} /\ oob = FALSE

InitPos ==
  /\ \E r \in 0..MaxRank :
       /\ index \in [1..r -> PosIndexVals]
       /\ strides \in [1..r -> PosStrideVals]
  /\ offset \in PosOffsetVals
  /\ ppos = U64FromNat(offset)
  /\ pi = 1
  /\ TraversalIdle
  /\ MatmulIdle
  /\ ReduceIdle
  /\ GridIdle
  /\ CoordIdle

\* pos += index[i] * strides[i]; ++i
PosStep ==
  /\ pi <= Len(index)
  /\ ppos' = PosAdd(ppos, index[pi], strides[pi])
  /\ pi' = pi + 1
  /\ UNCHANGED <<tvars, mvars, rvars, gvars, cvars>>

NextPos == PosStep

SpecPos == InitPos /\ [][NextPos]_vars

\* offset + sum of the first k products, over the integers.
RECURSIVE PartialPos(_)
PartialPos(k) == IF k = 0 THEN offset ELSE PartialPos(k - 1) + index[k] * strides[k]

\* C10: with signed strides, whenever the mathematical position offset +
\* sum_d index[d]*strides[d] lies inside the buffer, the unsigned 64-bit
\* accumulator ends equal to it, whatever the signs of the partial sums;
\* until then it holds the partial sum modulo 2^64.
NegativeStridesExact ==
  /\ ppos = (IF PartialPos(pi - 1) >= 0 THEN U64FromNat(PartialPos(pi - 1))
             ELSE <<(LimbBase - 1) - ((-PartialPos(pi - 1) - 1) % LimbBase),
                    (LimbBase - 1) - ((-PartialPos(pi - 1) - 1) \div LimbBase),
                    LimbBase - 1, LimbBase - 1>>)
  /\ (pi > Len(index) /\ MathPos(index, strides, offset) \in 0..(PosBufSize - 1)) =>
       /\ U64Index(ppos) = MathPos(index, strides, offset)
       /\ ppos = Pos(index, strides, offset)

NegativePartialDone ==
  /\ pi > Len(index)
  /\ MathPos(index, strides, offset) \in 0..(PosBufSize - 1)
  /\ \E k \in 1..Len(index) : PartialPos(k) < -LimbBase
  /\ U64Index(ppos) = MathPos(index, strides, offset)

\* ----------------------------------------------------- the matmul calls
TileMultiples == {t * TILE : t \in 1..MaxTiles}

InitMatmul ==
  /\ mdim \in TileMultiples /\ ndim \in TileMultiples /\ pdim \in TileMultiples
  /\ \E sa \in 0..MaxSeed, sb \in 0..MaxSeed :
       /\ am = [x \in 0..(mdim * ndim - 1) |-> MatA(x \div ndim, x % ndim, sa)]
       /\ bm = [x \in 0..(ndim * pdim - 1) |-> MatB(x \div pdim, x % pdim, sb)]
       /\ at = [x \in 0..(mdim * ndim - 1) |-> MatA(TiledRow(x, ndim), TiledCol(x, ndim), sa)]
       /\ bt = [x \in 0..(ndim * pdim - 1) |-> MatB(TiledRow(x, pdim), TiledCol(x, pdim), sb)]
  /\ outm = [x \in 0..(mdim * pdim - 1) |-> 90 + x]
  /\ outt = [x \in 0..(mdim * pdim - 1) |-> 90 - x]
  /\ ti = 0 /\ tj = 0 /\ tk = 0
  /\ mpc = "idle"
  /\ mcalled = {}
  /\ TraversalIdle /\ index = <<>> /\ strides = <<>> /\ offset = 0
  /\ PosIdle
  /\ ReduceIdle
  /\ GridIdle
  /\ CoordIdle

\* Matmul(am, bm, &outm, m, n, p)
CallMatmul ==
  /\ mpc = "idle"
  /\ "Matmul" \notin mcalled
  /\ outm' = Matmul(am, bm, outm, mdim, ndim, pdim)
  /\ mcalled' = mcalled \cup {"Matmul"}
  /\ UNCHANGED <<mdim, ndim, pdim, am, bm, at, bt, outt, ti, tj, tk, mpc>>

\* MatmulTiled(at, bt, &outt, m, n, p): Fill(out, 0) and the loop headers
\* (m, n, p are at least TILE, so all three loops are entered).
CallMatmulTiled ==
  /\ mpc = "idle"
  /\ "MatmulTiled" \notin mcalled
  /\ outt' = Fill(outt, 0)
  /\ ti' = 0 /\ tj' = 0 /\ tk' = 0
  /\ mpc' = "MatmulTiled"
  /\ mcalled' = mcalled \cup {"MatmulTiled"}
  /\ UNCHANGED <<mdim, ndim, pdim, am, bm, outm, at, bt>>

\* One round of the innermost loop of MatmulTiled (lines 313-320) and the
\* loop increments that follow it.
MatmulTiledStep ==
  /\ mpc = "MatmulTiled"
  /\ outt' = AlignedDot(at, ATile(ti, ndim, tk), bt, BTile(tk, pdim, tj),
                        outt, OutTile(ti, pdim, tj))
  /\ IF tk + TILE < ndim
     THEN tk' = tk + TILE /\ UNCHANGED <<ti, tj, mpc>>
     ELSE /\ tk' = 0
          /\ IF tj + TILE < pdim
             THEN tj' = tj + TILE /\ UNCHANGED <<ti, mpc>>
             ELSE /\ tj' = 0
                  /\ IF ti + TILE < mdim
                     THEN ti' = ti + TILE /\ mpc' = mpc
                     ELSE ti' = 0 /\ mpc' = "idle"
  /\ UNCHANGED <<mdim, ndim, pdim, am, bm, outm, at, bt, mcalled>>

NextMatmul ==
  \/ CallMatmul /\ UNCHANGED <<tvars, pvars, rvars, gvars, cvars>>
  \/ CallMatmulTiled /\ UNCHANGED <<tvars, pvars, rvars, gvars, cvars>>
  \/ MatmulTiledStep /\ UNCHANGED <<tvars, pvars, rvars, gvars, cvars>>

SpecMatmul == InitMatmul /\ [][NextMatmul]_vars

\* The position of element (i, j) of a matrix with `cols` columns in the
\* block-major layout.
TiledIndex(i, j, cols) ==
  ((i \div TILE) * (cols \div TILE) + j \div TILE) * TILE * TILE + (i % TILE) * TILE + (j % TILE)

\* sum_k a[i,k] * b[k,j] of the row-major matrices.
RECURSIVE RowTimesCol(_, _, _)
RowTimesCol(i, j, k) ==
  IF k = 0 THEN 0
  ELSE RowTimesCol(i, j, k - 1) + am[i * ndim + (k - 1)] * bm[(k - 1) * pdim + j]

ReduceVals == {-2, 3}
Ramp(len) == [x \in 0..(len - 1) |-> x + 1]
ReduceSources(len) == [0..(len - 1) -> ReduceVals] \cup {Ramp(len)}

InitReduce ==
  /\ rsize \in 1..MaxReduce
  /\ \E osize \in 0..MaxOut :
       /\ ra \in ReduceSources(osize * rsize)
       /\ outMax = [x \in 0..(osize - 1) |-> 77]
       /\ outSum = [x \in 0..(osize - 1) |-> 77]
  /\ ri = 0
  /\ rpc = "idle"
  /\ rcalled = {}
  /\ rreads = [k \in {"ReduceMax", "ReduceSum"} |-> [x \in DOMAIN outMax |-> {}]]
  /\ TraversalIdle /\ index = <<>> /\ strides = <<>> /\ offset = 0
  /\ PosIdle
  /\ MatmulIdle
  /\ GridIdle
  /\ CoordIdle

\* ReduceMax(ra, &outMax, rsize) / ReduceSum(ra, &outSum, rsize): the loop
\* header; with out.size = 0 the call returns at once.
CallReduce(name, out_) ==
  /\ rpc = "idle"
  /\ name \notin rcalled
  /\ rcalled' = rcalled \cup {name}
  /\ ri' = 0
  /\ rpc' = IF 0 \in DOMAIN out_ THEN name ELSE "idle"
  /\ UNCHANGED <<ra, rsize, outMax, outSum, rreads>>

CallReduceMax == CallReduce("ReduceMax", outMax)
CallReduceSum == CallReduce("ReduceSum", outSum)

\* One round of the outer loop of ReduceMax (lines 334-340).
ReduceMaxStep ==
  /\ rpc = "ReduceMax"
  /\ LET got == MaxBlock(ra, ri, rsize)
     IN  /\ outMax' = [outMax EXCEPT ![ri] = got.v]
         /\ rreads' = [rreads EXCEPT !["ReduceMax"][ri] = got.r]
  /\ ri' = ri + 1
  /\ rpc' = IF (ri + 1) \in DOMAIN outMax THEN rpc ELSE "idle"
  /\ UNCHANGED <<ra, rsize, outSum, rcalled>>

\* One round of the outer loop of ReduceSum (lines 352-358).
ReduceSumStep ==
  /\ rpc = "ReduceSum"
  /\ LET got == SumBlock(ra, ri, rsize)
     IN  /\ outSum' = [outSum EXCEPT ![ri] = got.v]
         /\ rreads' = [rreads EXCEPT !["ReduceSum"][ri] = got.r]
  /\ ri' = ri + 1
  /\ rpc' = IF (ri + 1) \in DOMAIN outSum THEN rpc ELSE "idle"
  /\ UNCHANGED <<ra, rsize, outMax, rcalled>>

NextReduce ==
  \/ CallReduceMax /\ UNCHANGED <<tvars, pvars, mvars, gvars, cvars>>
  \/ CallReduceSum /\ UNCHANGED <<tvars, pvars, mvars, gvars, cvars>>
  \/ ReduceMaxStep /\ UNCHANGED <<tvars, pvars, mvars, gvars, cvars>>
  \/ ReduceSumStep /\ UNCHANGED <<tvars, pvars, mvars, gvars, cvars>>

SpecReduce == InitReduce /\ [][NextReduce]_vars

\* Block i of the source, and the sum of its first k elements.
Block(i) == (i * rsize)..(i * rsize + rsize - 1)
RECURSIVE BlockSum(_, _)
BlockSum(i, k) == IF k = 0 THEN 0 ELSE BlockSum(i, k - 1) + ra[i * rsize + k - 1]

ReduceFinished(name) == name \in rcalled /\ rpc # name

\* C6: with a.size = out.size * reduce_size and reduce_size >= 1, ReduceSum
\* sets out[i] to the sum and ReduceMax to the maximum of block i of a, for
\* every i, reading block i only; [1,2,3,4,5,6] with reduce_size 3 gives
\* sums [6,15] and maxima [3,6].
ReduceBlocks ==
  /\ ReduceFinished("ReduceSum") =>
       /\ \A i \in DOMAIN outSum :
            outSum[i] = BlockSum(i, rsize) /\ rreads["ReduceSum"][i] = Block(i)
       /\ (ra = Ramp(6) /\ rsize = 3) => outSum = (0 :> 6 @@ 1 :> 15)
  /\ ReduceFinished("ReduceMax") =>
       /\ \A i \in DOMAIN outMax :
            /\ \E x \in Block(i) : outMax[i] = ra[x]
            /\ \A x \in Block(i) : outMax[i] >= ra[x]
            /\ rreads["ReduceMax"][i] = Block(i)
       /\ (ra = Ramp(6) /\ rsize = 3) => outMax = (0 :> 3 @@ 1 :> 6)

ReduceRampDone ==
  /\ ReduceFinished("ReduceSum") /\ ReduceFinished("ReduceMax")
  /\ ra = Ramp(6) /\ rsize = 3
  /\ outSum = (0 :> 6 @@ 1 :> 15) /\ outMax = (0 :> 3 @@ 1 :> 6)

\* ------------------------------------------------- the grid sample call
\* The grids of the model: coordinates in [-1, 1] that vary from cell to
\* cell, x and y at different rates, from the starting values sx, sy.
GridCoords == 2 * GridDen + 1
GridOf(cells, sx, sy, kx) ==
  [x \in 0..(2 * cells - 1) |->
     IF x % 2 = 0 THEN ((sx + kx * (x \div 2)) % GridCoords) - GridDen
     ELSE ((sy + 2 * (x \div 2)) % GridCoords) - GridDen]

InitGrid ==
  /\ gshape \in [1..4 -> 1..MaxDim]
  /\ ga = [x \in 0..(gshape[1] * gshape[2] * (gshape[3] + 2) * (gshape[4] + 2) - 1) |-> x + 1]
  /\ \E sx \in 0..(GridCoords - 1), sy \in {0, GridDen, 2 * GridDen}, kx \in {1, 3} :
       ggrid = GridOf(gshape[1] * gshape[3] * gshape[4], sx, sy, kx)
  /\ gprior \in {0, 1}
  /\ gout = [x \in 0..(gshape[1] * gshape[2] * gshape[3] * gshape[4] - 1) |->
               gprior * TransDen * TransDen]
  /\ gi = 0
  /\ gpc = "idle"
  /\ greads = [x \in DOMAIN gout |-> {}]
  /\ ginds = [x \in DOMAIN gout |-> <<0, 0>>]
  /\ TraversalIdle /\ index = <<>> /\ strides = <<>> /\ offset = 0
  /\ PosIdle
  /\ MatmulIdle
  /\ ReduceIdle
  /\ CoordIdle

\* GridSample(ga, ggrid, &gout, gshape): lines 371-379 and the loop header
\* (bchw >= 1 for the shapes of the model).
CallGridSample ==
  /\ gpc = "idle"
  /\ gi = 0
  /\ gpc' = "GridSample"
  /\ UNCHANGED <<gshape, ga, ggrid, gout, gprior, gi, greads, ginds>>

\* One round of the loop over i (lines 381-395).
GridSampleStep ==
  /\ gpc = "GridSample"
  /\ LET got == GridSampleAt(ga, ggrid, gout[gi], gi, gshape)
     IN  /\ gout' = [gout EXCEPT ![gi] = got.out]
         /\ greads' = [greads EXCEPT ![gi] = got.reads]
         /\ ginds' = [ginds EXCEPT ![gi] = <<got.xind, got.yind>>]
  /\ gi' = gi + 1
  /\ gpc' = IF (gi + 1) \in DOMAIN gout THEN gpc ELSE "done"
  /\ UNCHANGED <<gshape, ga, ggrid, gprior>>

NextGrid ==
  \/ CallGridSample /\ UNCHANGED <<tvars, pvars, mvars, rvars, cvars>>
  \/ GridSampleStep /\ UNCHANGED <<tvars, pvars, mvars, rvars, cvars>>

SpecGrid == InitGrid /\ [][NextGrid]_vars

\* Output element i as (b, c, h, w), and the coordinates its grid cell maps to.
GB(i) == i \div (gshape[2] * gshape[3] * gshape[4])
GC(i) == (i \div (gshape[3] * gshape[4])) % gshape[2]
GH(i) == (i \div gshape[4]) % gshape[3]
GW(i) == i % gshape[4]
GCell(i) == (GB(i) * gshape[3] + GH(i)) * gshape[4] + GW(i)
\* x' = x*W/2 + (W+1)/2 and y' = y*H/2 + (H+1)/2, as numerators over TransDen.
GXNum(i) == ggrid[2 * GCell(i)] * gshape[4] + (gshape[4] + 1) * GridDen
GYNum(i) == ggrid[2 * GCell(i) + 1] * gshape[3] + (gshape[3] + 1) * GridDen
PlaneSize == (gshape[3] + 2) * (gshape[4] + 2)
Sampled(i) == gpc # "off" /\ i \in DOMAIN gout /\ i < gi

\* C7: with out zero-initialized, an output element whose grid cell (that of
\* (b, h, w), whatever c) maps to integer padded coordinates (x0, y0) equals
\* a[(b*C + c)*(H+2)*(W+2) + y0*(W+2) + x0] exactly.
LatticePointExact ==
  \A i \in DOMAIN gout :
    (Sampled(i) /\ gprior = 0 /\ GXNum(i) % TransDen = 0 /\ GYNum(i) % TransDen = 0) =>
      gout[i] = TransDen * TransDen *
                ga[(GB(i) * gshape[2] + GC(i)) * PlaneSize
                   + (GYNum(i) \div TransDen) * (gshape[4] + 2) + (GXNum(i) \div TransDen)]

LatticePointSampled ==
  \E i \in DOMAIN gout :
    /\ Sampled(i) /\ gprior = 0
    /\ GXNum(i) % TransDen = 0 /\ GYNum(i) % TransDen = 0
    /\ GC(i) = 1 /\ GB(i) = 1 /\ gshape[4] = 2 /\ gshape[3] = 2
    /\ GXNum(i) \div TransDen = 2
    /\ gout[i] > 0

\* On the small images of SpecGrid every coordinate is a float exactly, and
\* there the cast of x' and y' is their floor, 0 <= x0 and x0+1 <= W+1,
\* 0 <= y0 and y0+1 <= H+1, and every index read lies in the (H+2)*(W+2)
\* plane of the element's own (b, c), inside a.  CastInsideThePad below
\* states the same for one element of a wide image.
InsideThePad ==
  \A i \in DOMAIN gout :
    Sampled(i) =>
      /\ ginds[i] = <<GXNum(i) \div TransDen, GYNum(i) \div TransDen>>
      /\ 0 <= ginds[i][1] /\ ginds[i][1] + 1 <= gshape[4] + 1
      /\ 0 <= ginds[i][2] /\ ginds[i][2] + 1 <= gshape[3] + 1
      /\ \A x \in greads[i] :
           /\ x \in DOMAIN ga
           /\ x \div PlaneSize = GB(i) * gshape[2] + GC(i)

CornerSampled ==
  \E i \in DOMAIN gout :
    /\ Sampled(i)
    /\ ggrid[2 * GCell(i)] = GridDen /\ ggrid[2 * GCell(i) + 1] = -GridDen
    /\ ginds[i] = <<gshape[4], 0>>
    /\ gshape[4] = 2
    /\ i > 0

\* ------------------------------------ the loop body on one large image
\* One element (i = 0) of a one-plane image whose width is as large as the
\* float format makes interesting; a and out are not materialized, only the
\* coordinates and the indices read are followed.
WideExtents == {2 ^ 23 - 1, 2 ^ 23, 2 ^ 23 + 1, 2 ^ 23 + 3, 2 ^ 24 - 1, 2 ^ 24 + 1, 2 ^ 25 - 1}

InitCoord ==
  /\ \E h \in 1..MaxDim, w \in (1..MaxDim) \cup WideExtents : cshape = <<1, 1, h, w>>
  /\ cgrid \in [0..1 -> (-GridDen)..GridDen]
  /\ ctrans = <<>>
  /\ cind = <<>>
  /\ creads = {}
  /\ cpc = "trans"
  /\ TraversalIdle /\ index = <<>> /\ strides = <<>> /\ offset = 0
  /\ PosIdle
  /\ MatmulIdle
  /\ ReduceIdle
  /\ GridIdle

\* Lines 382-386 for i = 0: grid_ptr, x, y, x_trans, y_trans.
CoordTrans ==
  /\ cpc = "trans"
  /\ LET gp == GridPtr(0, cshape[2] * cshape[3] * cshape[4], cshape[3] * cshape[4])
     IN  ctrans' = <<Trans(cgrid[gp], cshape[4]), Trans(cgrid[gp + 1], cshape[3])>>
  /\ cpc' = "cast"
  /\ UNCHANGED <<cshape, cgrid, cind, creads>>

\* Lines 387-388: x_ind, y_ind.
CoordCast ==
  /\ cpc = "cast"
  /\ cind' = <<Cast(ctrans[1]), Cast(ctrans[2])>>
  /\ cpc' = "read"
  /\ UNCHANGED <<cshape, cgrid, ctrans, creads>>

\* Lines 391-392 for i = 0: a_ptr for k = 0..3.
CoordRead ==
  /\ cpc = "read"
  /\ LET h == cshape[3]
         w == cshape[4]
     IN  creads' = {APtr(0, h * w, (h + 2) * (w + 2), w, cind[2] + yk, cind[1] + xk) :
                      xk \in {0, 1}, yk \in {0, 1}}
  /\ cpc' = "done"
  /\ UNCHANGED <<cshape, cgrid, ctrans, cind>>

NextCoord ==
  \/ CoordTrans /\ UNCHANGED <<tvars, pvars, mvars, rvars, gvars>>
  \/ CoordCast /\ UNCHANGED <<tvars, pvars, mvars, rvars, gvars>>
  \/ CoordRead /\ UNCHANGED <<tvars, pvars, mvars, rvars, gvars>>

SpecCoord == InitCoord /\ [][NextCoord]_vars

\* x' = x*W/2 + (W+1)/2 and y' = y*H/2 + (H+1)/2 as numerators over TransDen.
CXNum == cgrid[0] * cshape[4] + (cshape[4] + 1) * GridDen
CYNum == cgrid[1] * cshape[3] + (cshape[3] + 1) * GridDen

\* C9, on one element of a one-plane image of any width: the cast of x' and
\* y' is their floor, 0 <= x0 and x0+1 <= W+1, 0 <= y0 and y0+1 <= H+1, and
\* every index read lies in [0, a.size) = [0, (H+2)*(W+2)).
CastInsideThePad ==
  cpc = "done" =>
    /\ cind = <<CXNum \div TransDen, CYNum \div TransDen>>
    /\ 0 <= cind[1] /\ cind[1] + 1 <= cshape[4] + 1
    /\ 0 <= cind[2] /\ cind[2] + 1 <= cshape[3] + 1
    /\ \A x \in creads : 0 <= x /\ x < (cshape[3] + 2) * (cshape[4] + 2)

\* ------------------------------------------- properties of the traversal
LastCall == IF called = <<>> THEN "none" ELSE called[Len(called)]
Returned(name) == pc = "idle" /\ LastCall = name
PositiveShape == Len(shape) >= 1 /\ \A d \in 1..Len(shape) : shape[d] >= 1

\* The row-major rank of a multi-index: the last dimension varies fastest.
RECURSIVE RowMajorFrom(_, _, _, _)
RowMajorFrom(acc, ix, shape_, d) ==
  IF d > Len(ix) THEN acc ELSE RowMajorFrom(acc * shape_[d] + ix[d], ix, shape_, d + 1)
RowMajor(ix, shape_) == RowMajorFrom(0, ix, shape_, 1)

ViewPositions == {MathPos(ix, strides, offset) : ix \in Indices(shape)}
NonOverlapping ==
  \A ix, jx \in Indices(shape) :
    ix # jx => MathPos(ix, strides, offset) # MathPos(jx, strides, offset)

\* C1: once Compact has returned on a shape of rank >= 1 with all extents
\* >= 1, out[r(idx)] = a[offset + sum_d idx[d]*strides[d]] for every
\* multi-index idx, r being the row-major rank; shape [2,3] over [0..5] gives
\* [0,2,4,1,3,5] with strides [1,2] and the identity with strides [3,1].
CompactRowMajor ==
  (PositiveShape /\ HasCalled("Compact") /\ pc # "Compact") =>
    /\ \A ix \in Indices(shape) :
         c[RowMajor(ix, shape)] = a[MathPos(ix, strides, offset)]
    /\ (shape = <<2, 3>> /\ offset = 0 /\ strides = <<1, 2>>) =>
         c = (0 :> 0 @@ 1 :> 2 @@ 2 :> 4 @@ 3 :> 1 @@ 4 :> 3 @@ 5 :> 5)
    /\ (shape = <<2, 3>> /\ offset = 0 /\ strides = <<3, 1>>) =>
         c = (0 :> 0 @@ 1 :> 1 @@ 2 :> 2 @@ 3 :> 3 @@ 4 :> 4 @@ 5 :> 5)

CompactTransposedDone ==
  /\ Returned("Compact")
  /\ shape = <<2, 3>> /\ strides = <<1, 2>> /\ offset = 0
  /\ c = (0 :> 0 @@ 1 :> 2 @@ 2 :> 4 @@ 3 :> 1 @@ 4 :> 3 @@ 5 :> 5)

\* C2: for every valid view with pairwise distinct positions, Compact
\* followed by EwiseSetitem of its result into an all-zero buffer leaves
\* Z[pos] = V[pos] at every position of the view and 0 everywhere else.
RoundTrip ==
  (pc = "idle" /\ called = <<"Compact", "EwiseSetitem">> /\ zAtCall = ZeroBuf
     /\ NonOverlapping) =>
    \A p \in DOMAIN z : z[p] = IF p \in ViewPositions THEN a[p] ELSE 0

\* The round trip on the shapes whose extents are all >= 1.
RoundTripPositive == PositiveShape => RoundTrip

RoundTripDone ==
  /\ pc = "idle" /\ called = <<"Compact", "EwiseSetitem">> /\ zAtCall = ZeroBuf
  /\ PositiveShape /\ NonOverlapping
  /\ Len(shape) = 2 /\ Product(shape) >= 4 /\ offset > 0
  /\ \E d \in 1..2 : strides[d] < 0

\* C3: on a view of rank 0 (empty shape and strides) each kernel transfers
\* exactly one element, at strided position offset and compact position 0,
\* and then returns.
RankZeroOneTransfer ==
  Len(shape) = 0 =>
    /\ transfers <= 1
    /\ touched \subseteq {0}
    /\ written \subseteq {offset}
    /\ (pc = "idle" /\ called # <<>>) => transfers = 1

\* C4: on a shape of non-negative extents and rank >= 1, Compact and
\* EwiseSetitem make exactly product(shape) transfers, at the compact
\* indices 0..product(shape)-1; nothing is read or written when an extent
\* is 0.
ProductTransfers ==
  (Len(shape) >= 1 /\ LastCall \in {"Compact", "EwiseSetitem"}) =>
    /\ transfers <= Product(shape)
    /\ touched \subseteq 0..(Product(shape) - 1)
    /\ pc = "idle" => (transfers = Product(shape) /\ touched = 0..(Product(shape) - 1))

\* The same on the shapes whose extents are all >= 1.
ProductTransfersPositive == PositiveShape => ProductTransfers

\* C8: on a shape of rank >= 1 with extents >= 1, EwiseSetitem and
\* ScalarSetitem (size = product(shape)) change the destination only at the
\* positions of the view; the source of EwiseSetitem is unchanged; after
\* ScalarSetitem every position of the view holds val.
SetitemFrame ==
  (PositiveShape /\ LastCall \in {"EwiseSetitem", "ScalarSetitem"}) =>
    /\ \A p \in DOMAIN z : p \notin ViewPositions => z[p] = zAtCall[p]
    /\ written \subseteq ViewPositions
    /\ ~oob
    /\ called = <<"EwiseSetitem">> => c = CompactBuf(shape)
    /\ Returned("EwiseSetitem") =>
         \A ix \in Indices(shape) : z[MathPos(ix, strides, offset)] \in {c[k] : k \in DOMAIN c}
    /\ Returned("ScalarSetitem") =>
         /\ size = Product(shape)
         /\ written = ViewPositions
         /\ \A p \in ViewPositions : z[p] = val

ScalarSetitemDone ==
  /\ Returned("ScalarSetitem") /\ PositiveShape
  /\ val = 7 /\ zAtCall = DstBuf
  /\ Len(shape) = 2 /\ Product(shape) >= 4
  /\ Cardinality(ViewPositions) < BufSize
  /\ \E p \in ViewPositions : z[p] = 7
  /\ \E p \in DOMAIN z : z[p] = 100 + p

====
